---- MODULE Spec2Model ----
(***************************************************************************)
(* Model of the Spotify EDA pipeline: the analyzer functions of            *)
(* src/src/analyzer.py and the cleaners of src/src/cleaner.py, over small  *)
(* pandas-like tables.                                                     *)
(*                                                                         *)
(* A table is [cols |-> set of column names, rows |-> sequence of rows];   *)
(* a row is [index |-> its pandas index label, c |-> [cols -> cell]].      *)
(* A cell is a record tagged by k:                                         *)
(*   "nan"  a missing value (NaN / None)                                   *)
(*   "num"  a number; v2 is TWICE its value, so 181 is 90.5 (the medians   *)
(*          of integer columns are halves)                                 *)
(*   "str"  a string; s is its sequence of characters                      *)
(*   "list" a Python list of strings; v is its sequence of strings         *)
(*   "date" a timestamp in year y, month m;  "nat" the missing timestamp   *)
(***************************************************************************)
EXTENDS Integers, Sequences, FiniteSets, TLC

VARIABLES tracks, artists, features, call, result, pc

vars == <<tracks, artists, features, call, result, pc>>

---------------------------------------------------------------------------
(* Bounds of the model *)

MaxTrackRows == 3

MaxArtistRows == 2

MaxGenreRows == 3

MaxTrendRows == 3

MaxCleanRows == 3

MaxCleanArtistRows == 2

MaxPasses == 2

MaxTopN == 3

MaxMainRows == 1

---------------------------------------------------------------------------
(* Program constants *)

POPULARITY_THRESHOLD == 90

TOP_N_TRACKS == 10

TOP_N_ARTISTS == 10

POPULARITY_FREQ == "Y"

---------------------------------------------------------------------------
(* Cells *)

NaN == [k |-> "nan"]

NaT == [k |-> "nat"]

Num(v2) == [k |-> "num", v2 |-> v2]

Whole(n) == Num(2 * n)

Str(s) == [k |-> "str", s |-> s]

List(v) == [k |-> "list", v |-> v]

Date(y, m) == [k |-> "date", y |-> y, m |-> m]

None == [k |-> "none"]

Min(a, b) == IF a <= b THEN a ELSE b

Max(a, b) == IF a >= b THEN a ELSE b

Digits == <<"0", "1", "2", "3", "4", "5", "6", "7", "8", "9">>

IsDigit(ch) == \E d \in 1..10 : Digits[d] = ch

DigitValue(ch) == (CHOOSE d \in 1..10 : Digits[d] = ch) - 1

RECURSIVE DecimalValue(_)
DecimalValue(s) ==
    IF s = <<>> THEN 0
    ELSE 10 * DecimalValue(SubSeq(s, 1, Len(s) - 1)) + DigitValue(s[Len(s)])

\* pd.to_numeric(x, errors='coerce') on one cell: numbers stay, a string of
\* decimal digits is parsed, everything else becomes NaN.
ToNumeric(cell) ==
    IF cell.k = "num" THEN cell
    ELSE IF cell.k = "str" /\ cell.s # <<>> /\ \A i \in 1..Len(cell.s) : IsDigit(cell.s[i])
         THEN Whole(DecimalValue(cell.s))
    ELSE NaN

\* .fillna(value) on one cell
FillNa(cell, value) == IF cell.k \in {"nan", "nat"} THEN value ELSE cell

\* .astype(int) on one numeric cell: the fraction is truncated toward zero
AsTypeInt(cell) ==
    IF cell.v2 >= 0 THEN Whole(cell.v2 \div 2) ELSE Whole(-((-cell.v2) \div 2))

\* pd.to_numeric(col, errors='coerce').fillna(0).astype(int) on one cell
CoerceInt(cell) == AsTypeInt(FillNa(ToNumeric(cell), Whole(0)))

---------------------------------------------------------------------------
(* Tables *)

Row(i, c) == [index |-> i, c |-> c]

Table(cols, rows) == [cols |-> cols, rows |-> rows]

NoTable == Table({}, <<>>)

\* df[col] = f(df[col]) : the column rewritten cell by cell
MapColumn(t, col, F(_)) ==
    Table(t.cols,
          [i \in 1..Len(t.rows) |->
              Row(t.rows[i].index, [t.rows[i].c EXCEPT ![col] = F(@)])])

\* df.head(n): the first n rows; for a negative n all but the last |n|
HeadRows(rows, n) ==
    IF n >= 0 THEN SubSeq(rows, 1, Min(n, Len(rows)))
    ELSE SubSeq(rows, 1, Max(Len(rows) + n, 0))

Injective(p) == \A i, j \in DOMAIN p : p[i] = p[j] => i = j

\* df.sort_values(col, ascending=False) with the default kind='quicksort',
\* which pandas documents as not stable: every arrangement of the rows whose
\* keys do not increase is a possible result.
SortValuesDesc(rows, col) ==
    { [i \in 1..Len(rows) |-> rows[p[i]]] :
        p \in { q \in [1..Len(rows) -> 1..Len(rows)] :
                  /\ Injective(q)
                  /\ \A i \in 1..(Len(rows) - 1) :
                        rows[q[i]].c[col].v2 >= rows[q[i + 1]].c[col].v2 } }

---------------------------------------------------------------------------
(* What a call gives back: a value, or the exception that left it *)

Returned(v) == [raised |-> FALSE, value |-> v]

Raised(e) == [raised |-> TRUE, error |-> e]

NoResult == [raised |-> FALSE, value |-> "none"]

NoCall == [fn |-> "none"]

---------------------------------------------------------------------------
(* src/src/analyzer.py: the rankings *)

\* The possible results of get_top_popular_tracks(tracks, threshold, top_n)
get_top_popular_tracks(t, threshold, top_n) ==
    IF "popularity" \notin t.cols THEN {Returned(Table(t.cols, <<>>))}
    ELSE LET df == MapColumn(t, "popularity", CoerceInt)
             Above(r) == r.c["popularity"].v2 > AsTypeInt(threshold).v2
             filtered == IF threshold # None THEN SelectSeq(df.rows, Above)
                         ELSE df.rows
         IN  { Returned(Table(t.cols, HeadRows(s, top_n))) :
                   s \in SortValuesDesc(filtered, "popularity") }

\* The possible results of top_artists_by_followers(artists, top_n)
top_artists_by_followers(t, top_n) ==
    IF "followers" \notin t.cols THEN {Returned(Table(t.cols, <<>>))}
    ELSE LET df == MapColumn(t, "followers", CoerceInt)
         IN  { Returned(Table(t.cols, HeadRows(s, top_n))) :
                   s \in SortValuesDesc(df.rows, "followers") }

---------------------------------------------------------------------------
(* src/src/analyzer.py: genre_distribution.  Strings are sequences of      *)
(* characters over letters, the comma, the space, the brackets and the     *)
(* single quote; ast.literal_eval is modelled on that alphabet.            *)

Fail == [ok |-> FALSE]

RECURSIVE SkipSpaces(_, _)
SkipSpaces(s, i) ==
    IF i <= Len(s) /\ s[i] = " " THEN SkipSpaces(s, i + 1) ELSE i

At(s, i) == IF i >= 1 /\ i <= Len(s) THEN s[i] ELSE "EOF"

\* The index of the quote closing the string literal opened before i, 0 if none
RECURSIVE ClosingQuote(_, _)
ClosingQuote(s, i) ==
    IF i > Len(s) THEN 0
    ELSE IF s[i] = "'" THEN i
    ELSE ClosingQuote(s, i + 1)

\* One or more adjacent string literals from i (Python concatenates them)
RECURSIVE ParseStrings(_, _, _)
ParseStrings(s, i, acc) ==
    LET close == ClosingQuote(s, i + 1)
    IN  IF close = 0 THEN Fail
        ELSE LET val == acc \o SubSeq(s, i + 1, close - 1)
                 nxt == SkipSpaces(s, close + 1)
             IN  IF At(s, nxt) = "'" THEN ParseStrings(s, nxt, val)
                 ELSE [ok |-> TRUE, val |-> val, next |-> close + 1]

\* A list display from the "[" at i: its string elements, whether some
\* element is itself a list, and the index after the closing "]".  A bare name
\* is a ValueError of literal_eval, anything else out of place a SyntaxError.
RECURSIVE ParseList(_, _)
RECURSIVE ParseElems(_, _, _, _)
ParseElems(s, i, acc, nested) ==
    LET e == IF At(s, i) = "'" THEN ParseStrings(s, i, <<>>)
             ELSE IF At(s, i) = "[" THEN ParseList(s, i)
             ELSE Fail
    IN  IF ~e.ok THEN Fail
        ELSE LET isList == At(s, i) = "["
                 acc2 == IF isList THEN acc ELSE Append(acc, e.val)
                 nested2 == nested \/ isList
                 k == SkipSpaces(s, e.next)
             IN  IF At(s, k) = "]"
                 THEN [ok |-> TRUE, val |-> acc2, nested |-> nested2, next |-> k + 1]
                 ELSE IF At(s, k) = ","
                 THEN LET k2 == SkipSpaces(s, k + 1)
                      IN  IF At(s, k2) = "]"
                          THEN [ok |-> TRUE, val |-> acc2, nested |-> nested2,
                                next |-> k2 + 1]
                          ELSE ParseElems(s, k2, acc2, nested2)
                 ELSE Fail

ParseList(s, i) ==
    LET j == SkipSpaces(s, i + 1)
    IN  IF At(s, j) = "]"
        THEN [ok |-> TRUE, val |-> <<>>, nested |-> FALSE, next |-> j + 1]
        ELSE ParseElems(s, j, <<>>, FALSE)

\* ast.literal_eval(val) followed by isinstance(parsed, list): ok with the
\* list when val is a list literal, not ok when it is any other literal or
\* literal_eval raises ValueError or SyntaxError.
LiteralList(s) ==
    LET i == SkipSpaces(s, 1)
    IN  IF At(s, i) # "[" THEN Fail
        ELSE LET r == ParseList(s, i)
             IN  IF r.ok /\ SkipSpaces(s, r.next) > Len(s) THEN r ELSE Fail

\* val.split(",")
RECURSIVE SplitComma(_, _)
SplitComma(s, cur) ==
    IF s = <<>> THEN <<cur>>
    ELSE IF Head(s) = "," THEN <<cur>> \o SplitComma(Tail(s), <<>>)
    ELSE SplitComma(Tail(s), Append(cur, Head(s)))

\* g.strip()
RECURSIVE Strip(_)
Strip(s) ==
    IF s # <<>> /\ Head(s) = " " THEN Strip(Tail(s))
    ELSE IF s # <<>> /\ s[Len(s)] = " " THEN Strip(SubSeq(s, 1, Len(s) - 1))
    ELSE s

\* [g.strip() for g in val.split(",")]
SplitTokens(s) ==
    LET parts == SplitComma(s, <<>>)
    IN  [i \in 1..Len(parts) |-> Strip(parts[i])]

\* GenreTokens without the literal-list step: every string is split on commas
GenreTokens_SplitOnly(cell) ==
    IF cell.k = "list" THEN [tokens |-> cell.v, nested |-> FALSE]
    ELSE IF cell.k = "str" THEN [tokens |-> SplitTokens(cell.s), nested |-> FALSE]
    ELSE [tokens |-> <<>>, nested |-> FALSE]

\* What one genres value adds to all_genres
GenreTokens(cell) ==
    IF cell.k = "list" THEN [tokens |-> cell.v, nested |-> FALSE]
    ELSE IF cell.k = "str"
         THEN LET parsed == LiteralList(cell.s)
              IN  IF parsed.ok THEN [tokens |-> parsed.val, nested |-> parsed.nested]
                  ELSE [tokens |-> SplitTokens(cell.s), nested |-> FALSE]
    ELSE [tokens |-> <<>>, nested |-> FALSE]

\* all_genres after the loop over artists["genres"].dropna()
RECURSIVE AllGenres(_, _)
AllGenres(rows, acc) ==
    IF rows = <<>> THEN acc
    ELSE LET g == GenreTokens(rows[1].c["genres"])
         IN  AllGenres(Tail(rows),
                       [tokens |-> acc.tokens \o g.tokens,
                        nested |-> acc.nested \/ g.nested])

Occurrences(seq, x) == Cardinality({ i \in 1..Len(seq) : seq[i] = x })

\* The distinct values of seq in the order of their first occurrence
RECURSIVE Unique(_, _)
Unique(seq, seen) ==
    IF seq = <<>> THEN seen
    ELSE IF \E i \in 1..Len(seen) : seen[i] = Head(seq) THEN Unique(Tail(seq), seen)
    ELSE Unique(Tail(seq), Append(seen, Head(seq)))

\* pd.Series(values).value_counts(): one row per distinct value, indexed by
\* the value, ordered by count descending (an unhashable value is a TypeError)
ValueCounts(values) ==
    LET keys == Unique(values, <<>>)
        counted == [i \in 1..Len(keys) |->
                       Row(keys[i], [count |-> Whole(Occurrences(values, keys[i]))])]
    IN  { Returned(Table({"count"}, s)) : s \in SortValuesDesc(counted, "count") }

\* The possible results of genre_distribution(artists)
genre_distribution(t) ==
    IF "genres" \notin t.cols THEN {Returned(Table({"count"}, <<>>))}
    ELSE LET all == AllGenres(t.rows, [tokens |-> <<>>, nested |-> FALSE])
         IN  IF all.nested THEN {Raised("TypeError")}
             ELSE ValueCounts(all.tokens)

---------------------------------------------------------------------------
(* src/src/analyzer.py: popularity_trend *)

AllDigits(s, from, to) == \A i \in from..to : IsDigit(s[i])

\* pd.to_datetime(x, errors='coerce') on one cell: a timestamp stays, a
\* "YYYY-MM-DD" string is parsed, a missing or unparseable value becomes NaT.
ToDatetime(cell) ==
    IF cell.k = "date" THEN cell
    ELSE IF /\ cell.k = "str"
            /\ Len(cell.s) = 10
            /\ cell.s[5] = "-" /\ cell.s[8] = "-"
            /\ AllDigits(cell.s, 1, 4) /\ AllDigits(cell.s, 6, 7) /\ AllDigits(cell.s, 9, 10)
            /\ DecimalValue(SubSeq(cell.s, 6, 7)) \in 1..12
            /\ DecimalValue(SubSeq(cell.s, 9, 10)) \in 1..28
         THEN Date(DecimalValue(SubSeq(cell.s, 1, 4)), DecimalValue(SubSeq(cell.s, 6, 7)))
    ELSE NaT

\* The number of the calendar period of a timestamp, and the period's label
PeriodOf(d, freq) == IF freq = "YE" THEN d.y ELSE 12 * d.y + (d.m - 1)

PeriodLabel(p, freq) ==
    IF freq = "YE" THEN Date(p, 12) ELSE Date(p \div 12, (p % 12) + 1)

RECURSIVE SumV2(_)
SumV2(cells) == IF cells = <<>> THEN 0 ELSE Head(cells).v2 + SumV2(Tail(cells))

\* Mean that counts the missing values as numbers worth 0
Mean_CountsMissing(cells) ==
    LET IsNum(c) == c.k = "num"
        nums == SelectSeq(cells, IsNum)
    IN  IF cells = <<>> THEN NaN
        ELSE [k |-> "ratio", sum2 |-> SumV2(nums), n |-> Len(cells)]

\* Series.mean() with skipna: sum2 / n is twice the mean of the numbers
\* among cells, NaN when there is none
Mean(cells) ==
    LET IsNum(c) == c.k = "num"
        nums == SelectSeq(cells, IsNum)
    IN  IF nums = <<>> THEN NaN
        ELSE [k |-> "ratio", sum2 |-> SumV2(nums), n |-> Len(nums)]

\* ResampleMean that leaves out the periods without rows
ResampleMean_OccupiedOnly(rows, dcol, col, freq) ==
    IF freq \notin {"YE", "ME"} THEN Raised("ValueError")
    ELSE IF rows = <<>> THEN Returned(Table({col}, <<>>))
    ELSE LET periods == { PeriodOf(rows[i].c[dcol], freq) : i \in 1..Len(rows) }
             Nth(n) == CHOOSE p \in periods : Cardinality({ q \in periods : q < p }) = n - 1
             InBin(p) ==
                 LET Here(r) == PeriodOf(r.c[dcol], freq) = p
                     here == SelectSeq(rows, Here)
                 IN  [i \in 1..Len(here) |-> here[i].c[col]]
         IN  Returned(Table({col},
                 [i \in 1..Cardinality(periods) |->
                     Row(PeriodLabel(Nth(i), freq), [x \in {col} |-> Mean(InBin(Nth(i)))])]))

\* series.resample(freq).mean() of the column col of rows indexed by the
\* timestamps of column dcol: one bin for EVERY period from the earliest to
\* the latest timestamp, in ascending order, each holding the mean of its
\* rows (NaN for a bin without numbers).
ResampleMean(rows, dcol, col, freq) ==
    IF freq \notin {"YE", "ME"} THEN Raised("ValueError")
    ELSE IF rows = <<>> THEN Returned(Table({col}, <<>>))
    ELSE LET periods == { PeriodOf(rows[i].c[dcol], freq) : i \in 1..Len(rows) }
             first == CHOOSE p \in periods : \A q \in periods : p <= q
             last == CHOOSE p \in periods : \A q \in periods : p >= q
             InBin(p) ==
                 LET Here(r) == PeriodOf(r.c[dcol], freq) = p
                     here == SelectSeq(rows, Here)
                 IN  [i \in 1..Len(here) |-> here[i].c[col]]
         IN  Returned(Table({col},
                 [i \in 1..(last - first + 1) |->
                     Row(PeriodLabel(first + i - 1, freq),
                         [x \in {col} |-> Mean(InBin(first + i - 1))])]))

\* MapFreq without the alias: the code given is the code resampled by
MapFreq_NoAlias(freq) == freq

\* Backwards compatibility: map deprecated 'Y' to 'YE'
MapFreq(freq) == IF freq \in {"Y", "y"} THEN "YE" ELSE freq

\* popularity_trend(tracks, freq)
popularity_trend(t, freq) ==
    IF "release_date" \notin t.cols THEN Returned(Table({"popularity"}, <<>>))
    ELSE LET parsed == MapColumn(t, "release_date", ToDatetime)
             HasDate(r) == r.c["release_date"] # NaT
             kept == Table(t.cols, SelectSeq(parsed.rows, HasDate))
             df == IF "popularity" \in t.cols THEN MapColumn(kept, "popularity", ToNumeric)
                   ELSE kept
         IN  IF "popularity" \notin df.cols THEN Raised("KeyError")
             ELSE ResampleMean(df.rows, "release_date", "popularity", MapFreq(freq))

---------------------------------------------------------------------------
(* src/src/cleaner.py *)

\* One column name through .str.lower().str.replace(" ", "_")
NormalizeColumn(name) ==
    CASE name = "ID" -> "id"
      [] name = "Track ID" -> "track_id"
      [] name = "Release Date" -> "release_date"
      [] name = "Genres" -> "genres"
      [] OTHER -> name

\* df.columns = df.columns.str.lower().str.replace(" ", "_")
NormalizeColumns(t) ==
    LET Raw(col) == CHOOSE raw \in t.cols : NormalizeColumn(raw) = col
        cols == { NormalizeColumn(raw) : raw \in t.cols }
    IN  Table(cols,
              [i \in 1..Len(t.rows) |->
                  Row(t.rows[i].index, [col \in cols |-> t.rows[i].c[Raw(col)]])])

Column(t, col) == [i \in 1..Len(t.rows) |-> t.rows[i].c[col]]

\* Whether int(x) / astype(int) accepts the cell: a number, or digits as text
IntConvertible(cell) == cell.k = "num" \/ ToNumeric(cell) # NaN

\* df[col].fillna(0).astype(int): ok is FALSE when a value is not numeric
\* (astype raises ValueError)
FillZeroAsInt(t, col) ==
    LET filled == MapColumn(t, col, LAMBDA c : FillNa(c, Whole(0)))
    IN  IF \A i \in 1..Len(filled.rows) : IntConvertible(filled.rows[i].c[col])
        THEN [ok |-> TRUE, t |-> MapColumn(filled, col, LAMBDA c : AsTypeInt(ToNumeric(c)))]
        ELSE [ok |-> FALSE]

\* str(x) of a list of strings: "['p', 'k']"
RECURSIVE ReprItems(_)
ReprItems(v) ==
    IF v = <<>> THEN <<>>
    ELSE <<"'">> \o Head(v) \o <<"'">>
         \o (IF Len(v) > 1 THEN <<",", " ">> ELSE <<>>) \o ReprItems(Tail(v))

\* .astype(str) on one cell of the genres column
AsTypeStr(cell) ==
    CASE cell.k = "str" -> cell
      [] cell.k = "list" -> Str(<<"[">> \o ReprItems(cell.v) \o <<"]">>)

\* .str.replace(r"[\[\]']", "", regex=True)
StripBrackets(s) == SelectSeq(s, LAMBDA ch : ch \notin {"[", "]", "'"})

LowerChar(ch) ==
    CASE ch = "U" -> "u"
      [] ch = "P" -> "p"
      [] ch = "K" -> "k"
      [] ch = "J" -> "j"
      [] OTHER -> ch

\* .str.lower()
Lower(s) == [i \in 1..Len(s) |-> LowerChar(s[i])]

Unknown == <<"U", "n", "k", "n", "o", "w", "n">>

\* CleanGenre with strip() ahead of the removal of brackets and quotes
CleanGenre_StripFirst(cell) ==
    Str(Lower(StripBrackets(Strip(AsTypeStr(FillNa(cell, Str(Unknown))).s))))

\* The genres column: fillna("Unknown"), then astype(str), the brackets and
\* quotes removed, strip(), lower()
CleanGenre(cell) ==
    Str(Lower(Strip(StripBrackets(AsTypeStr(FillNa(cell, Str(Unknown))).s))))

\* df.drop_duplicates(subset=[col]): the first row of each value is kept
DropDuplicates(t, col) ==
    LET First(i) == \A j \in 1..(i - 1) : t.rows[j].c[col] # t.rows[i].c[col]
        keep == { i \in 1..Len(t.rows) : First(i) }
        Nth(n) == CHOOSE i \in keep : Cardinality({ j \in keep : j < i }) = n - 1
    IN  Table(t.cols, [n \in 1..Cardinality(keep) |-> t.rows[Nth(n)]])

\* clean_artists(artists)
clean_artists(t) ==
    LET df == NormalizeColumns(t)
    IN  IF "genres" \notin df.cols THEN Raised("KeyError")
        ELSE IF "followers" \notin df.cols THEN Raised("KeyError")
        ELSE LET f == FillZeroAsInt(df, "followers")
             IN  IF ~f.ok THEN Raised("ValueError")
                 ELSE IF "popularity" \notin df.cols THEN Raised("KeyError")
                 ELSE LET q == FillZeroAsInt(f.t, "popularity")
                      IN  IF ~q.ok THEN Raised("ValueError")
                          ELSE IF "id" \notin df.cols THEN Raised("KeyError")
                          ELSE Returned(DropDuplicates(
                                   MapColumn(q.t, "genres", CleanGenre), "id"))

\* df.select_dtypes(include=['number']).columns: read_csv gives a column a
\* numeric dtype when it has rows and each of its values is a number or is
\* missing (a column of an empty file, or one holding text, is object; a
\* parsed date column is datetime64)
NumericColumns(t) ==
    { col \in t.cols :
        /\ t.rows # <<>>
        /\ \A i \in 1..Len(t.rows) : t.rows[i].c[col].k \in {"num", "nan"} }

\* The numbers of cells in ascending order
RECURSIVE SortedNumbers(_)
SortedNumbers(S) ==
    IF S = {} THEN <<>>
    ELSE LET i == CHOOSE x \in S : \A y \in S : x.v <= y.v /\ (x.v = y.v => x.i <= y.i)
         IN  <<i.v>> \o SortedNumbers(S \ {i})

\* Series.median(): NaN without numbers, else the middle one, or the mean of
\* the two middle ones (v2 is twice the value: whole numbers have exact medians)
Median(cells) ==
    LET nums == SortedNumbers({ [i |-> i, v |-> cells[i].v2] :
                                  i \in { j \in 1..Len(cells) : cells[j].k = "num" } })
        n == Len(nums)
    IN  IF n = 0 THEN NaN
        ELSE IF n % 2 = 1 THEN Num(nums[(n + 1) \div 2])
        ELSE Num((nums[n \div 2] + nums[(n \div 2) + 1]) \div 2)

\* numeric_cols = df.select_dtypes(include=['number']).columns
\* df[numeric_cols] = df[numeric_cols].fillna(df[numeric_cols].median())
FillNumericWithMedian(t) ==
    LET numeric == NumericColumns(t)
        med == [col \in numeric |-> Median(Column(t, col))]
    IN  Table(t.cols,
              [i \in 1..Len(t.rows) |->
                  Row(t.rows[i].index,
                      [col \in t.cols |->
                          IF col \in numeric THEN FillNa(t.rows[i].c[col], med[col])
                          ELSE t.rows[i].c[col]])])

\* clean_tracks(tracks)
clean_tracks(t) ==
    LET df == NormalizeColumns(t)
    IN  IF "release_date" \notin df.cols THEN Raised("KeyError")
        ELSE LET dated == MapColumn(df, "release_date", ToDatetime)
                 filled == FillNumericWithMedian(dated)
             IN  IF "id" \notin df.cols THEN Raised("KeyError")
                 ELSE Returned(DropDuplicates(filled, "id"))

\* clean_features(features)
clean_features(t) ==
    LET df == NormalizeColumns(t)
        filled == FillNumericWithMedian(df)
    IN  IF "track_id" \notin df.cols THEN Raised("KeyError")
        ELSE Returned(DropDuplicates(filled, "track_id"))

---------------------------------------------------------------------------
(* The input tables of the analyzer *)

\* The rows a table over the columns cols can have, the cell of column col
\* drawn from Cells[col]
RowCells(cols, Cells) ==
    LET AllCells == UNION { Cells[col] : col \in cols }
    IN  { f \in [cols -> AllCells] : \A col \in cols : f[col] \in Cells[col] }

\* The table of the rows rc, under the default RangeIndex 0, 1, ...
FromRows(cols, rc) == Table(cols, [i \in 1..Len(rc) |-> Row(i - 1, rc[i])])

\* t is a table with the columns cols and at most n rows
IsTableOver(t, cols, Cells, n) ==
    \E len \in 0..n : \E rc \in [1..len -> RowCells(cols, Cells)] : t = FromRows(cols, rc)

\* Popularity values of a raw or cleaned tracks table: missing, text, a
\* number read as text, whole numbers, and a half such as a median fill leaves
RankingCells ==
    [popularity |-> {NaN, Str(<<"9", "5">>),
                     Whole(POPULARITY_THRESHOLD), Num(2 * POPULARITY_THRESHOLD + 1),
                     Whole(92), Whole(95)},
     followers |-> {NaN, Str(<<"a">>), Whole(10), Whole(20)}]

TrendCells ==
    [release_date |-> {NaN, Str(<<"n", "/", "a">>),
                       Str(<<"2", "0", "2", "0", "-", "0", "1", "-", "1", "5">>),
                       Str(<<"2", "0", "2", "2", "-", "0", "3", "-", "1", "5">>)},
     popularity |-> {Str(<<"x">>), Whole(50), Whole(70)}]

GenreCells ==
    [genres |-> {NaN,
                 List(<< <<"k">> >>),
                 Str(<<"[", "'", "p", "'", ",", "'", "k", "'", "]">>),
                 Str(<<" ", "[", "'", "p", "'", ",", " ", "'", "j", "'", ",", "]", " ">>),
                 Str(<<"[", "[", "'", "p", "'", "]", "]">>),
                 Str(<<"p", ",", " ", "j">>),
                 Str(<<"'", "p", "'", ",", "'", "j", "'">>)}]

Thresholds == {None, Whole(POPULARITY_THRESHOLD)}

Frequencies == {"Y", "YE", "ME", "yearly"}

---------------------------------------------------------------------------
(* One analyzer function applied to one input table; pc names the function *)
(* about to be called, then "done"                                         *)

InitAnalyzer ==
    /\ call = NoCall
    /\ result = NoResult
    /\ features = NoTable
    /\ \/ /\ pc = "get_top_popular_tracks"
          /\ \E cols \in SUBSET {"popularity"} :
                IsTableOver(tracks, cols, RankingCells, MaxTrackRows)
          /\ artists = NoTable
       \/ /\ pc = "popularity_trend"
          /\ \E cols \in SUBSET {"release_date", "popularity"} :
                IsTableOver(tracks, cols, TrendCells, MaxTrendRows)
          /\ artists = NoTable
       \/ /\ pc = "top_artists_by_followers"
          /\ \E cols \in SUBSET {"followers"} :
                IsTableOver(artists, cols, RankingCells, MaxArtistRows)
          /\ tracks = NoTable
       \/ /\ pc = "genre_distribution"
          /\ \E cols \in SUBSET {"genres"} :
                IsTableOver(artists, cols, GenreCells, MaxGenreRows)
          /\ tracks = NoTable

GetTopPopularTracks ==
    /\ pc = "get_top_popular_tracks"
    /\ \E threshold \in Thresholds, top_n \in 0..MaxTopN :
         /\ call' = [fn |-> "get_top_popular_tracks", threshold |-> threshold,
                     top_n |-> top_n]
         /\ result' \in get_top_popular_tracks(tracks, threshold, top_n)
    /\ pc' = "done"
    /\ UNCHANGED <<tracks, artists, features>>

TopArtistsByFollowers ==
    /\ pc = "top_artists_by_followers"
    /\ \E top_n \in 0..MaxTopN :
         /\ call' = [fn |-> "top_artists_by_followers", top_n |-> top_n]
         /\ result' \in top_artists_by_followers(artists, top_n)
    /\ pc' = "done"
    /\ UNCHANGED <<tracks, artists, features>>

GenreDistribution ==
    /\ pc = "genre_distribution"
    /\ call' = [fn |-> "genre_distribution"]
    /\ result' \in genre_distribution(artists)
    /\ pc' = "done"
    /\ UNCHANGED <<tracks, artists, features>>

PopularityTrend ==
    /\ pc = "popularity_trend"
    /\ \E freq \in Frequencies :
         /\ call' = [fn |-> "popularity_trend", freq |-> freq]
         /\ result' = popularity_trend(tracks, freq)
    /\ pc' = "done"
    /\ UNCHANGED <<tracks, artists, features>>

NextAnalyzer ==
    \/ GetTopPopularTracks
    \/ TopArtistsByFollowers
    \/ GenreDistribution
    \/ PopularityTrend

SpecAnalyzer == InitAnalyzer /\ [][NextAnalyzer]_vars

---------------------------------------------------------------------------
(* The cleaners applied to one raw table, and again to their own output *)

\* pd.read_csv never mixes numbers and text in one column: beside text, a
\* number is text too
CsvConsistent(t) ==
    \A col \in t.cols :
        ~ /\ \E i \in 1..Len(t.rows) : t.rows[i].c[col].k = "str"
          /\ \E i \in 1..Len(t.rows) : t.rows[i].c[col].k = "num"

RawGenres == {NaN, Str(<<"[", " ", "'", "P", "'", ",", "'", "k", "'", "]">>),
              List(<< <<"p">>, <<"k">> >>)}

RawIds == {Str(<<"a">>), Str(<<"b">>)}

RawArtistCells(idcol, genrescol) ==
    [col \in {idcol, genrescol, "followers", "popularity"} |->
        CASE col = idcol -> RawIds
          [] col = genrescol -> RawGenres
          [] col = "followers" -> {NaN, Num(11), Str(<<"x">>)}
          [] col = "popularity" -> {NaN, Whole(7)}]

\* An artists table with one more numeric column
RawArtistExtraCells ==
    [id |-> RawIds, genres |-> {Str(<<"p">>)}, followers |-> {Whole(5)},
     popularity |-> {Whole(7)}, energy |-> {NaN, Whole(1)}]

\* An artists table with the name column
RawArtistNamedCells ==
    [id |-> RawIds, name |-> {NaN, Str(<<"n">>)}, genres |-> {Str(<<"p">>)},
     followers |-> {NaN, Whole(5), Str(<<"x">>)},
     popularity |-> {Whole(7), Str(<<"x">>)}]

RawTrackCells ==
    [id |-> {NaN, Whole(1), Str(<<"a">>)},
     release_date |-> {Str(<<"n", "/", "a">>),
                       Str(<<"2", "0", "2", "0", "-", "0", "1", "-", "1", "5">>)},
     popularity |-> {NaN, Whole(50), Whole(70)}]

RawFeatureCells(idcol) ==
    [col \in {idcol, "energy"} |->
        IF col = idcol THEN RawIds \cup {NaN} ELSE {NaN, Whole(1), Whole(2)}]

NotCleaned == [fn |-> "none", pass |-> 0]

InitCleaner ==
    /\ pc = "raw"
    /\ call = NotCleaned
    /\ result = NoResult
    /\ \/ /\ \/ \E idcol \in {"id", "ID"} :
                   IsTableOver(artists, {idcol, "genres", "followers", "popularity"},
                               RawArtistCells(idcol, "genres"), MaxCleanArtistRows)
             \/ IsTableOver(artists, {"id", "genres", "followers", "popularity", "energy"},
                            RawArtistExtraCells, MaxCleanArtistRows)
             \/ IsTableOver(artists, {"id", "followers", "popularity"},
                            RawArtistCells("id", "genres"), MaxCleanArtistRows)
             \/ IsTableOver(artists, {"id", "name", "genres", "followers", "popularity"},
                            RawArtistNamedCells, MaxCleanArtistRows)
          /\ artists # NoTable /\ tracks = NoTable /\ features = NoTable
       \/ /\ \/ IsTableOver(tracks, {"id", "release_date", "popularity"},
                            RawTrackCells, MaxCleanRows)
             \/ IsTableOver(tracks, {"release_date", "popularity"},
                            RawTrackCells, MaxCleanArtistRows)
          /\ tracks # NoTable /\ artists = NoTable /\ features = NoTable
       \/ /\ \/ \E idcol \in {"track_id", "Track ID"} :
                   IsTableOver(features, {idcol, "energy"},
                               RawFeatureCells(idcol), MaxCleanRows)
             \/ IsTableOver(features, {"energy"}, RawFeatureCells("track_id"),
                            MaxCleanArtistRows)
          /\ features # NoTable /\ artists = NoTable /\ tracks = NoTable
    /\ CsvConsistent(artists) /\ CsvConsistent(tracks) /\ CsvConsistent(features)

\* artists = clean_artists(artists)
CleanArtists ==
    /\ pc \in {"raw", "cleaned"}
    /\ call.fn \in {"none", "clean_artists"} /\ artists # NoTable
    /\ call.pass < MaxPasses
    /\ call' = [fn |-> "clean_artists", input |-> artists, pass |-> call.pass + 1,
                raw |-> IF call.pass = 0 THEN artists ELSE call.raw]
    /\ result' = clean_artists(artists)
    /\ artists' = IF result'.raised THEN artists ELSE result'.value
    /\ pc' = IF result'.raised THEN "failed" ELSE "cleaned"
    /\ UNCHANGED <<tracks, features>>

\* tracks = clean_tracks(tracks)
CleanTracks ==
    /\ pc \in {"raw", "cleaned"}
    /\ call.fn \in {"none", "clean_tracks"} /\ tracks # NoTable
    /\ call.pass < MaxPasses
    /\ call' = [fn |-> "clean_tracks", input |-> tracks, pass |-> call.pass + 1,
                raw |-> IF call.pass = 0 THEN tracks ELSE call.raw]
    /\ result' = clean_tracks(tracks)
    /\ tracks' = IF result'.raised THEN tracks ELSE result'.value
    /\ pc' = IF result'.raised THEN "failed" ELSE "cleaned"
    /\ UNCHANGED <<artists, features>>

\* features = clean_features(features)
CleanFeatures ==
    /\ pc \in {"raw", "cleaned"}
    /\ call.fn \in {"none", "clean_features"} /\ features # NoTable
    /\ call.pass < MaxPasses
    /\ call' = [fn |-> "clean_features", input |-> features, pass |-> call.pass + 1,
                raw |-> IF call.pass = 0 THEN features ELSE call.raw]
    /\ result' = clean_features(features)
    /\ features' = IF result'.raised THEN features ELSE result'.value
    /\ pc' = IF result'.raised THEN "failed" ELSE "cleaned"
    /\ UNCHANGED <<artists, tracks>>

NextCleaner ==
    \/ CleanArtists
    \/ CleanTracks
    \/ CleanFeatures

SpecCleaner == InitCleaner /\ [][NextCleaner]_vars

---------------------------------------------------------------------------
(* src/main.py: main, the batch run.  pc is the stage about to run;        *)
(* call.stages lists the stages entered so far.  No stage catches an       *)
(* exception, so one raised in a stage ends the run there.                 *)

\* What the three files of the data directory can hold
FileArtistCells ==
    [id |-> {Str(<<"a">>)}, name |-> {Str(<<"n">>)},
     genres |-> {Str(<<"p", ",", " ", "j">>)},
     followers |-> {Whole(5), Str(<<"x">>)}, popularity |-> {Whole(7)}]

FileArtistColumns ==
    { {"id", "name", "genres", "followers", "popularity"} \ drop :
        drop \in {{}, {"name"}, {"genres"}} }

FileTrackCells ==
    [id |-> {Whole(1)}, name |-> {Str(<<"t">>)},
     release_date |-> {Str(<<"n", "/", "a">>),
                       Str(<<"2", "0", "2", "0", "-", "0", "1", "-", "1", "5">>)},
     popularity |-> {NaN, Whole(95)}]

FileTrackColumns ==
    { {"id", "name", "release_date", "popularity"} \ drop :
        drop \in {{}, {"name"}, {"popularity"}, {"release_date"}} }

FileFeatureCells == [track_id |-> {Str(<<"a">>)}, energy |-> {Whole(1)}]

FileFeatureColumns == {{"track_id", "energy"}, {"energy"}}

Running(stages) == [fn |-> "main", stages |-> stages]

InitMain ==
    /\ pc = "load"
    /\ call = Running(<<>>)
    /\ result = NoResult
    /\ artists = NoTable /\ tracks = NoTable /\ features = NoTable

\* artists, tracks, features = load_datasets(): pd.read_csv raises when a
\* file is absent or unreadable
LoadDatasets ==
    /\ pc = "load"
    /\ call' = Running(Append(call.stages, "load"))
    /\ \/ /\ result' = Raised("FileNotFoundError")
          /\ pc' = "aborted"
          /\ UNCHANGED <<artists, tracks, features>>
       \/ /\ \E cols \in FileArtistColumns :
                IsTableOver(artists', cols, FileArtistCells, MaxMainRows)
          /\ \E cols \in FileTrackColumns :
                IsTableOver(tracks', cols, FileTrackCells, MaxMainRows)
          /\ \E cols \in FileFeatureColumns :
                IsTableOver(features', cols, FileFeatureCells, MaxMainRows)
          /\ pc' = "clean"
          /\ UNCHANGED result

\* clean_data(artists, tracks, features): the three cleaners in turn, the
\* first exception leaving the function
clean_data(a, t, f) ==
    LET ca == clean_artists(a)
        ct == clean_tracks(t)
        cf == clean_features(f)
    IN  IF ca.raised THEN ca
        ELSE IF ct.raised THEN ct
        ELSE IF cf.raised THEN cf
        ELSE Returned([artists |-> ca.value, tracks |-> ct.value, features |-> cf.value])

\* artists, tracks, features = clean_data(artists, tracks, features)
CleanData ==
    /\ pc = "clean"
    /\ call' = Running(Append(call.stages, "clean"))
    /\ LET cleaned == clean_data(artists, tracks, features)
       IN  IF cleaned.raised
           THEN /\ result' = cleaned
                /\ pc' = "aborted"
                /\ UNCHANGED <<artists, tracks, features>>
           ELSE /\ artists' = cleaned.value.artists
                /\ tracks' = cleaned.value.tracks
                /\ features' = cleaned.value.features
                /\ pc' = "analyze"
                /\ UNCHANGED result

\* The possible outcomes of run_analysis(artists, tracks, features)
run_analysis(a, t) ==
    LET trend == popularity_trend(t, POPULARITY_FREQ)
    IN  { IF g.raised THEN g
          ELSE IF trend.raised THEN trend
          ELSE Returned([top_tracks |-> tt.value, top_artists |-> ta.value,
                         genres |-> g.value, popularity_trend |-> trend.value]) :
            tt \in get_top_popular_tracks(t, Whole(POPULARITY_THRESHOLD), TOP_N_TRACKS),
            ta \in top_artists_by_followers(a, TOP_N_ARTISTS),
            g \in genre_distribution(a) }

\* results = run_analysis(artists, tracks, features)
RunAnalysis ==
    /\ pc = "analyze"
    /\ call' = Running(Append(call.stages, "analyze"))
    /\ result' \in run_analysis(artists, tracks)
    /\ pc' = IF result'.raised THEN "aborted" ELSE "display"
    /\ UNCHANGED <<artists, tracks, features>>

\* display_results(results): selecting [["name", "popularity"]] or
\* [["name", "followers"]] raises KeyError when one of the columns is absent
display_results(results) ==
    IF ~({"name", "popularity"} \subseteq results.top_tracks.cols) THEN Raised("KeyError")
    ELSE IF ~({"name", "followers"} \subseteq results.top_artists.cols) THEN Raised("KeyError")
    ELSE Returned(results)

DisplayResults ==
    /\ pc = "display"
    /\ call' = Running(Append(call.stages, "display"))
    /\ LET shown == display_results(result.value)
       IN  /\ result' = shown
           /\ pc' = IF shown.raised THEN "aborted" ELSE "save"
    /\ UNCHANGED <<artists, tracks, features>>

\* save_results(results): the four results written out, whatever they hold
SaveResults ==
    /\ pc = "save"
    /\ call' = Running(Append(call.stages, "save"))
    /\ pc' = "render"
    /\ UNCHANGED <<artists, tracks, features, result>>

\* generate_visuals(results, features): each plot function returns early on
\* an empty input or an absent column; then 'Analysis complete' is logged
GenerateVisuals ==
    /\ pc = "render"
    /\ call' = Running(Append(call.stages, "render"))
    /\ pc' = "complete"
    /\ UNCHANGED <<artists, tracks, features, result>>

NextMain ==
    \/ LoadDatasets
    \/ CleanData
    \/ RunAnalysis
    \/ DisplayResults
    \/ SaveResults
    \/ GenerateVisuals

SpecMain == InitMain /\ [][NextMain]_vars

---------------------------------------------------------------------------
(* Claims about the rankings *)

Called(fn) == pc = "done" /\ call.fn = fn

\* The popularity the rows are compared by when nothing is rounded: the
\* numeric value of the cell, 0 for a missing or non-numeric one
PopularityOf(cell) == FillNa(ToNumeric(cell), Whole(0)).v2

\* C1: get_top_popular_tracks returns the first top_n rows of the input after
\* keeping the rows whose popularity is strictly greater than the threshold
\* (all rows for a null threshold) and ordering them by popularity descending.
C1_TopTracksAboveThreshold ==
    (Called("get_top_popular_tracks") /\ "popularity" \in tracks.cols) =>
        LET P(i) == PopularityOf(tracks.rows[i].c["popularity"])
            kept == { i \in 1..Len(tracks.rows) :
                        call.threshold = None \/ P(i) > call.threshold.v2 }
            out == result.value.rows
            at(j) == out[j].index + 1
        IN  /\ ~result.raised
            /\ Len(out) = Min(call.top_n, Cardinality(kept))
            /\ \A j \in 1..Len(out) : at(j) \in kept
            /\ \A j, m \in 1..Len(out) : j < m => at(j) # at(m) /\ P(at(j)) >= P(at(m))
            /\ \A j \in 1..Len(out) :
                 \A i \in kept \ { at(m) : m \in 1..Len(out) } : P(at(j)) >= P(i)

\* C2: the ranking sorts are stable: of two returned rows with equal sort
\* key, the one that came first in the input comes first in the result.
C2_RankingIsStable ==
    \A fn \in {"get_top_popular_tracks", "top_artists_by_followers"} :
        (Called(fn) /\ ~result.raised) =>
            LET out == result.value.rows
                col == IF fn = "get_top_popular_tracks" THEN "popularity" ELSE "followers"
            IN  col \in result.value.cols =>
                  \A j, m \in 1..Len(out) :
                      (j < m /\ out[j].c[col] = out[m].c[col]) => out[j].index < out[m].index

---------------------------------------------------------------------------
(* Claims about genre_distribution *)

\* The tokens each genres value of the inputs stands for, written out by
\* hand from the precedence: a list as it is, a list literal parsed, any
\* other string split on commas and trimmed.
ExpectedTokens(cell) ==
    CASE cell = List(<< <<"k">> >>) -> << <<"k">> >>
      [] cell = Str(<<"[", "'", "p", "'", ",", "'", "k", "'", "]">>)
            -> << <<"p">>, <<"k">> >>
      [] cell = Str(<<" ", "[", "'", "p", "'", ",", " ", "'", "j", "'", ",", "]", " ">>)
            -> << <<"p">>, <<"j">> >>
      [] cell = Str(<<"p", ",", " ", "j">>) -> << <<"p">>, <<"j">> >>
      [] cell = Str(<<"'", "p", "'", ",", "'", "j", "'">>)
            -> << <<"'", "p", "'">>, <<"'", "j", "'">> >>
      [] OTHER -> <<>>

RECURSIVE ExpectedGenres(_)
ExpectedGenres(rows) ==
    IF rows = <<>> THEN <<>>
    ELSE ExpectedTokens(rows[1].c["genres"]) \o ExpectedGenres(Tail(rows))

\* The genres values are lists of strings in one of the three forms: none
\* is the literal of a list that holds a list
GenresOfStrings ==
    \A i \in 1..Len(artists.rows) :
        artists.rows[i].c["genres"] # Str(<<"[", "[", "'", "p", "'", "]", "]">>)

---------------------------------------------------------------------------
(* Claims about popularity_trend *)

Yearly == {"Y", "YE"}

\* The rows of tracks released in year y, by position
ReleasedIn(y) ==
    { i \in 1..Len(tracks.rows) :
        LET d == ToDatetime(tracks.rows[i].c["release_date"])
        IN  d # NaT /\ d.y = y }

\* Those of them whose popularity is a number
Rated(y) == { i \in ReleasedIn(y) : ToNumeric(tracks.rows[i].c["popularity"]) # NaN }

RECURSIVE TotalPopularity2(_)
TotalPopularity2(S) ==
    IF S = {} THEN 0
    ELSE LET i == CHOOSE x \in S : TRUE
         IN  ToNumeric(tracks.rows[i].c["popularity"]).v2 + TotalPopularity2(S \ {i})

BothTrendColumns == {"release_date", "popularity"} \subseteq tracks.cols

\* C4: at yearly frequency popularity_trend returns, for every calendar year
\* in which a row with a valid release_date falls, one value that is the
\* arithmetic mean of the numeric popularities of the rows released in that
\* year (rows without a valid date and non-numeric popularities left out),
\* the buckets in ascending chronological order.
C4_YearlyMean ==
    (Called("popularity_trend") /\ call.freq \in Yearly /\ BothTrendColumns) =>
        /\ ~result.raised
        /\ LET out == result.value.rows
           IN  /\ \A j \in 1..(Len(out) - 1) : out[j].index.y < out[j + 1].index.y
               /\ \A i \in 1..Len(tracks.rows) :
                    LET d == ToDatetime(tracks.rows[i].c["release_date"])
                    IN  d # NaT => \E j \in 1..Len(out) : out[j].index.y = d.y
               /\ \A j \in 1..Len(out) :
                    LET y == out[j].index.y
                        v == out[j].c["popularity"]
                    IN  IF Rated(y) = {} THEN v = NaN
                        ELSE /\ v.k = "ratio"
                             /\ v.n > 0
                             /\ v.sum2 * Cardinality(Rated(y)) = TotalPopularity2(Rated(y)) * v.n

\* The example of C4: two 2020 rows with popularity 50 and 70 average 60.0,
\* a third 2020 row whose popularity is not a number being left out
C4_Witness ==
    /\ Called("popularity_trend") /\ call.freq \in Yearly /\ BothTrendColumns
    /\ ~result.raised
    /\ Cardinality(ReleasedIn(2020)) = 3
    /\ Cardinality(Rated(2020)) = 2
    /\ \E j \in 1..Len(result.value.rows) :
         /\ result.value.rows[j].index.y = 2020
         /\ result.value.rows[j].c["popularity"] = [k |-> "ratio", sum2 |-> 240, n |-> 2]

\* C5: the result of popularity_trend holds a bucket only for the periods in
\* which at least one input row with a valid release_date falls.
C5_NoEmptyBuckets ==
    (Called("popularity_trend") /\ ~result.raised) =>
        \A j \in 1..Len(result.value.rows) :
            \E i \in 1..Len(tracks.rows) :
                LET d == ToDatetime(tracks.rows[i].c["release_date"])
                    f == MapFreq(call.freq)
                IN  d # NaT /\ PeriodLabel(PeriodOf(d, f), f) = result.value.rows[j].index

\* The periods of the rows of tracks that have a valid release_date
OccupiedPeriods(freq) ==
    { PeriodOf(ToDatetime(tracks.rows[i].c["release_date"]), freq) :
        i \in { j \in 1..Len(tracks.rows) :
                  ToDatetime(tracks.rows[j].c["release_date"]) # NaT } }

\* C5 as amended: the result of popularity_trend holds one bucket for EVERY
\* period from the earliest to the latest valid release date and none
\* outside; a period between them in which no row falls does appear, and
\* holds a missing value.
C5_EmptyBucketsAreMissing ==
    (Called("popularity_trend") /\ ~result.raised /\ BothTrendColumns) =>
        LET f == MapFreq(call.freq)
            occupied == OccupiedPeriods(f)
            out == result.value.rows
            Labelled(p) == { j \in 1..Len(out) : out[j].index = PeriodLabel(p, f) }
        IN  /\ \A p \in occupied, q \in occupied : \A r \in p..q : Cardinality(Labelled(r)) = 1
            /\ \A j \in 1..Len(out) :
                 \E p \in occupied, q \in occupied : \E r \in p..q :
                     /\ j \in Labelled(r)
                     /\ r \notin occupied => out[j].c["popularity"] = NaN

\* Rows in 2020 and 2022 only: the 2021 bucket is there, holding NaN
C5_Witness ==
    /\ Called("popularity_trend") /\ call.freq \in Yearly /\ BothTrendColumns
    /\ ~result.raised
    /\ OccupiedPeriods("YE") = {2020, 2022}
    /\ Len(result.value.rows) = 3
    /\ result.value.rows[2] = Row(Date(2021, 12), [popularity |-> NaN])

\* C6: popularity_trend called with the legacy yearly code 'Y' returns what
\* popularity_trend called with the canonical code 'YE' returns.
C6_LegacyYearlyAlias ==
    (Called("popularity_trend") /\ call.freq = "Y") =>
        result = popularity_trend(tracks, "YE")

\* 'Y' has given two yearly buckets
C6_Witness ==
    /\ Called("popularity_trend") /\ call.freq = "Y"
    /\ ~result.raised
    /\ Len(result.value.rows) >= 2
    /\ result.value.rows[1].index.m = 12

---------------------------------------------------------------------------
(* Claims about missing columns *)

UsedColumns(fn) ==
    CASE fn = "get_top_popular_tracks" -> {"popularity"}
      [] fn = "top_artists_by_followers" -> {"followers"}
      [] fn = "genre_distribution" -> {"genres"}
      [] fn = "popularity_trend" -> {"release_date", "popularity"}

InputOf(fn) ==
    IF fn \in {"get_top_popular_tracks", "popularity_trend"} THEN tracks ELSE artists

\* C7: an analyzer function given a table that lacks a column it uses does
\* not raise: it returns an empty result.
C7_MissingColumnGivesEmpty ==
    \A fn \in {"get_top_popular_tracks", "top_artists_by_followers",
               "genre_distribution", "popularity_trend"} :
        (Called(fn) /\ ~(UsedColumns(fn) \subseteq InputOf(fn).cols)) =>
            ~result.raised /\ result.value.rows = <<>>

---------------------------------------------------------------------------
(* Claims about the cleaners *)

Cleaners == {"clean_artists", "clean_tracks", "clean_features"}

IdColumn(fn) == IF fn = "clean_features" THEN "track_id" ELSE "id"

\* C8: each cleaner is idempotent: applied to its own output it returns a
\* table equal to that output (same rows, order, column names and values).
C8_CleaningIsIdempotent ==
    (call.fn \in Cleaners /\ call.pass >= 2) =>
        /\ ~result.raised
        /\ result.value = call.input

\* A second cleaning of a table the first one changed: names normalised,
\* values filled or rewritten, a duplicate dropped
C8_Witness ==
    /\ call.fn \in Cleaners /\ call.pass = 2 /\ pc = "cleaned"
    /\ call.raw.cols # call.input.cols
    /\ Len(call.input.rows) < Len(call.raw.rows)
    /\ \E i \in 1..Len(call.input.rows) :
         call.input.rows[i].c # NormalizeColumns(call.raw).rows[i].c

\* C9: after cleaning no two rows share an id (track_id for features); the
\* row carrying an identifier of the input is the first input row with that
\* identifier, and every identifier of the input still occurs.
C9_UniqueIdsFirstKept ==
    \A fn \in Cleaners :
        (pc = "cleaned" /\ call.fn = fn /\ call.pass = 1) =>
            LET key == IdColumn(fn)
                inp == NormalizeColumns(call.raw).rows
                out == result.value.rows
                FirstWith(id) ==
                    CHOOSE i \in 1..Len(inp) :
                        /\ inp[i].c[key] = id
                        /\ \A j \in 1..(i - 1) : inp[j].c[key] # id
            IN  /\ \A j, m \in 1..Len(out) : j # m => out[j].c[key] # out[m].c[key]
                /\ \A i \in 1..Len(inp) :
                     inp[i].c[key] # NaN =>
                        \E j \in 1..Len(out) :
                            /\ out[j].c[key] = inp[i].c[key]
                            /\ out[j].index = inp[FirstWith(inp[i].c[key])].index

\* C10: no numeric column of a cleaned table holds a missing value: followers
\* and popularity of artists are filled with 0, every other numeric column
\* with its median.
C10_NoMissingNumbers ==
    \A fn \in Cleaners :
        (pc = "cleaned" /\ call.fn = fn /\ call.pass = 1) =>
            LET inp == NormalizeColumns(call.raw)
                zeroed == IF fn = "clean_artists" THEN {"followers", "popularity"} ELSE {}
                retyped == IF fn = "clean_artists" THEN {"genres"}
                           ELSE IF fn = "clean_tracks" THEN {"release_date"}
                           ELSE {}
                numeric == (NumericColumns(inp) \ retyped) \cup zeroed
                out == result.value.rows
            IN  \A col \in numeric : \A j \in 1..Len(out) :
                    /\ out[j].c[col] # NaN
                    /\ inp.rows[out[j].index + 1].c[col] = NaN =>
                          out[j].c[col] = IF col \in zeroed THEN Whole(0)
                                          ELSE Median(Column(inp, col))

ArtistColumns == {"id", "name", "genres", "followers", "popularity"}

\* The first cleaning of an artists table that has the five columns
CleanedFullArtists ==
    /\ call.fn = "clean_artists" /\ call.pass = 1
    /\ ArtistColumns \subseteq call.raw.cols

\* C11: clean_artists does not raise on a followers or popularity value that
\* is not numeric: on a table with the id, name, genres, followers and
\* popularity columns it returns rows whose followers and popularity are
\* non-negative integers, 0 where the input was missing or non-numeric, and
\* whose name is not missing, "Unknown" where the input name was missing.
C11_ArtistsCoercedAndNamed ==
    CleanedFullArtists =>
        /\ ~result.raised
        /\ \A j \in 1..Len(result.value.rows) :
             LET out == result.value.rows[j].c
                 inp == call.raw.rows[result.value.rows[j].index + 1].c
             IN  /\ \A col \in {"followers", "popularity"} :
                      /\ out[col].k = "num"
                      /\ out[col].v2 >= 0 /\ out[col].v2 % 2 = 0
                      /\ ToNumeric(inp[col]) = NaN => out[col] = Whole(0)
                 /\ out["name"] # NaN
                 /\ inp["name"] = NaN =>
                       out["name"] = Str(<<"U", "n", "k", "n", "o", "w", "n">>)

---------------------------------------------------------------------------
(* Claims about the batch run *)

\* C12: in a batch run only a failing load aborts the run: a run that has
\* stopped on an exception has entered no stage but the load, so that once
\* the tables are loaded no stage fails, and after a failing load no later
\* stage is executed.
C12_OnlyLoadAborts ==
    (call.fn = "main" /\ pc = "aborted") => call.stages = <<"load">>

====
